---- MODULE Spec2Model ----
(***************************************************************************)
(* Model of synapse/appservice/api.py: ApplicationServiceApi, the          *)
(* homeserver -> application service client (queries, transaction push,    *)
(* key claim, ping) together with its protocol-metadata response cache and *)
(* its process-wide counters.                                              *)
(*                                                                         *)
(* Every coroutine is two steps: the code up to its await (the Call        *)
(* action) and the code after the transport has answered (the Resume       *)
(* action).  Tasks interleave only at those awaits.                        *)
(***************************************************************************)
EXTENDS Integers, Sequences, FiniteSets, TLC

(***************************************************************************)
(* Bounds of the model.                                                    *)
(***************************************************************************)
\* Number of coroutines that may be in flight at once.
MaxTasks == 2
\* Cap on the push_bulk calls that reach the network (caps the counters).
MaxTxns == 2
\* Cap on the number of clock advances.
MaxTicks == 2

Tasks == 1..MaxTasks

(***************************************************************************)
(* Python values.  None of an Optional[str] field is the string NONE; JSON *)
(* documents are tagged records.                                           *)
(***************************************************************************)
NONE == "<None>"

JNull == [t |-> "null"]
JNum == [t |-> "number"]
JStr(s) == [t |-> "string", s |-> s]
JList(items) == [t |-> "list", items |-> items]
JDict(f) == [t |-> "dict", f |-> f]
EmptyMap == [k \in {} |-> JNull]
EmptyDict == JDict(EmptyMap)

IsDict(j) == j.t = "dict"
IsList(j) == j.t = "list"
IsStr(j) == j.t = "string"
HasKey(j, k) == k \in DOMAIN j.f
Range(s) == {s[i] : i \in DOMAIN s}

\* Python's `x in container`: "True", "False" or "raise" (TypeError).  The
\* strings of the model are atoms, none of which contains another, so the
\* substring test on a str is equality.
PyIn(x, j) ==
    CASE IsDict(j) -> IF HasKey(j, x) THEN "True" ELSE "False"
      [] IsList(j) -> IF JStr(x) \in Range(j.items) THEN "True" ELSE "False"
      [] IsStr(j) -> IF j.s = x THEN "True" ELSE "False"
      [] OTHER -> "raise"

(***************************************************************************)
(* Application services (synapse.appservice.ApplicationService): the       *)
(* fields api.py reads.                                                    *)
(***************************************************************************)
ServiceIds == {"as1", "as2"}
Urls == {NONE, "https://as"}
Tokens == {NONE, "secret"}
Services ==
    [id : ServiceIds, url : Urls, hs_token : Tokens,
     supports_ephemeral : BOOLEAN, msc3202_transaction_extensions : BOOLEAN]

HOUR_IN_MS == 60 * 60 * 1000
APP_SERVICE_PREFIX == "/_matrix/app/unstable"

(***************************************************************************)
(* Transport outcomes of get_json / put_json / post_json_get_json: a       *)
(* decoded JSON body, a CodeMessageException with its code, or any other   *)
(* exception (connection refused, timeout, undecodable body).              *)
(***************************************************************************)
Ok(j) == [k |-> "ok", json |-> j]
HttpError(c) == [k |-> "http", code |-> c]
ConnFail == [k |-> "exc"]
HttpCodes == {404, 405, 500}
Failures == {HttpError(c) : c \in HttpCodes} \cup {ConnFail}

(***************************************************************************)
(* Values a call hands back: a Python value (a bool, or a JSON document),  *)
(* or an exception raised to the caller.                                   *)
(***************************************************************************)
PyBool(b) == [t |-> "bool", b |-> b]
Return(v) == [how |-> "return", value |-> v]
Raise(e) == [how |-> "raise", exc |-> e]
\* The call suspends on an HTTP request.
Request(r) == [how |-> "request", req |-> r]

\* A request URI: service.url, then the fixed path pieces, then one path
\* segment that the code passes through urllib.parse.quote ("" when the
\* path ends in no variable segment).
Uri(url, path, segment) == [base |-> url, path |-> path, quoted |-> segment]
\* headers={"Authorization": [f"Bearer {service.hs_token}"]}
Bearer(service) == [Authorization |-> <<"Bearer", service.hs_token>>]
NoArgs == [a \in {} |-> NONE]
NoBody == [t |-> "nobody"]
HttpRequest(method, uri, args, headers, body) ==
    [method |-> method, uri |-> uri, args |-> args, headers |-> headers,
     body |-> body]

(***************************************************************************)
(* query_user: the code before the await, and the code that runs on the    *)
(* transport's outcome.                                                    *)
(***************************************************************************)
query_user_begin(service, user_id) ==
    IF service.url = NONE THEN Return(PyBool(FALSE))
    ELSE IF service.hs_token = NONE THEN Raise("AssertionError")
    ELSE Request(HttpRequest("GET",
                             Uri(service.url, <<"/users/">>, user_id),
                             [access_token |-> service.hs_token],
                             Bearer(service), NoBody))

query_user_end(outcome) ==
    CASE outcome.k = "ok" ->
           IF outcome.json # JNull THEN Return(PyBool(TRUE))
           ELSE Return(PyBool(FALSE))
      [] outcome.k = "http" ->
           IF outcome.code = 404 THEN Return(PyBool(FALSE))
           ELSE Return(PyBool(FALSE))
      [] outcome.k = "exc" -> Return(PyBool(FALSE))

(***************************************************************************)
(* query_alias                                                             *)
(***************************************************************************)
query_alias_begin(service, alias) ==
    IF service.url = NONE THEN Return(PyBool(FALSE))
    ELSE IF service.hs_token = NONE THEN Raise("AssertionError")
    ELSE Request(HttpRequest("GET",
                             Uri(service.url, <<"/rooms/">>, alias),
                             [access_token |-> service.hs_token],
                             Bearer(service), NoBody))

query_alias_end(outcome) ==
    CASE outcome.k = "ok" ->
           IF outcome.json # JNull THEN Return(PyBool(TRUE))
           ELSE Return(PyBool(FALSE))
      [] outcome.k = "http" ->
           IF outcome.code = 404 THEN Return(PyBool(FALSE))
           ELSE Return(PyBool(FALSE))
      [] outcome.k = "exc" -> Return(PyBool(FALSE))

(***************************************************************************)
(* ping: no try/except around the request, so its failure is the call's.   *)
(***************************************************************************)
ping_begin(service, txn_id) ==
    IF service.url = NONE THEN Raise("AssertionError")
    ELSE IF service.hs_token = NONE THEN Raise("AssertionError")
    ELSE Request(HttpRequest("POST",
                             Uri(service.url,
                                 <<"/_matrix/app/unstable/fi.mau.msc2659/ping">>,
                                 ""),
                             NoArgs, Bearer(service),
                             JDict([transaction_id |->
                                      IF txn_id = NONE THEN JNull
                                      ELSE JStr(txn_id)])))

\* Mutant: the failure is swallowed, as the other operations do.
ping_end_swallows(outcome) == Return(JNull)

ping_end(outcome) ==
    CASE outcome.k = "ok" -> Return(JNull)
      [] outcome.k = "http" -> Raise("CodeMessageException")
      [] outcome.k = "exc" -> Raise("Exception")

(***************************************************************************)
(* query_3pe and its validator.                                            *)
(***************************************************************************)
\* Mutant: the "fields" entry is not looked at.
_is_valid_3pe_result_lax(r, field) ==
    /\ IsDict(r)
    /\ \A k \in {field, "protocol"} : HasKey(r, k) /\ IsStr(r.f[k])

_is_valid_3pe_result(r, field) ==
    /\ IsDict(r)
    /\ \A k \in {field, "protocol"} : HasKey(r, k) /\ IsStr(r.f[k])
    /\ HasKey(r, "fields")
    /\ IsDict(r.f["fields"])

required_field(kind) == IF kind = "user" THEN "userid" ELSE "alias"

query_3pe_begin(service, kind, protocol, fields) ==
    IF kind \notin {"user", "location"} THEN Raise("ValueError")
    ELSE IF service.url = NONE THEN Return(JList(<<>>))
    ELSE IF service.hs_token = NONE THEN Raise("AssertionError")
    ELSE Request(HttpRequest("GET",
                             Uri(service.url,
                                 <<APP_SERVICE_PREFIX, "/thirdparty/", kind, "/">>,
                                 protocol),
                             \* {**fields, b"access_token": service.hs_token}
                             [access_token |-> service.hs_token] @@ fields,
                             Bearer(service), NoBody))

query_3pe_end(kind, outcome) ==
    IF outcome.k = "ok"
    THEN IF ~IsList(outcome.json) THEN Return(JList(<<>>))
         ELSE Return(JList(SelectSeq(outcome.json.items,
                  LAMBDA r : _is_valid_3pe_result(r, required_field(kind)))))
    ELSE Return(JList(<<>>))

(***************************************************************************)
(* get_3pe_protocol: the producer _get that the response cache wraps.      *)
(***************************************************************************)
\* "True", "False", or "raise" when the test itself throws (info is not a
\* container, or is a list or str holding "instances", which cannot be
\* indexed by a string).
_is_valid_3pe_metadata(info) ==
    CASE PyIn("instances", info) = "raise" -> "raise"
      [] PyIn("instances", info) = "False" -> "False"
      [] OTHER -> IF ~IsDict(info) THEN "raise"
                  ELSE IF ~IsList(info.f["instances"]) THEN "False"
                  ELSE "True"

\* ThirdPartyInstanceID(appservice_id, network_id).to_string()
ThirdPartyInstanceID_to_string(appservice_id, network_id) ==
    [t |-> "string", fmt |-> "%s|%s",
     args |-> <<JStr(appservice_id), network_id>>]

\* instance.get("network_id", None)
network_id_of(instance) ==
    IF HasKey(instance, "network_id") THEN instance.f["network_id"] ELSE JNull

\* Mutant: the instance_id is set whether or not there is a network_id.
with_instance_id_always(service, instance) ==
    JDict(("instance_id" :>
             ThirdPartyInstanceID_to_string(service.id, network_id_of(instance)))
          @@ instance.f)

\* One turn of the loop over the instances, on a mapping.
with_instance_id(service, instance) ==
    IF network_id_of(instance) # JNull
    THEN JDict(("instance_id" :>
                  ThirdPartyInstanceID_to_string(service.id,
                                                 network_id_of(instance)))
               @@ instance.f)
    ELSE instance

\* Mutant: the token is not asserted.
_get_begin_unasserted(service, protocol) ==
    Request(HttpRequest("GET",
                        Uri(service.url,
                            <<APP_SERVICE_PREFIX, "/thirdparty/protocol/">>,
                            protocol),
                        [access_token |-> service.hs_token],
                        Bearer(service), NoBody))

_get_begin(service, protocol) ==
    IF service.hs_token = NONE THEN Raise("AssertionError")
    ELSE Request(HttpRequest("GET",
                             Uri(service.url,
                                 <<APP_SERVICE_PREFIX, "/thirdparty/protocol/">>,
                                 protocol),
                             [access_token |-> service.hs_token],
                             Bearer(service), NoBody))

_get_end(service, outcome) ==
    IF outcome.k # "ok" THEN Return(JNull)
    ELSE LET info == outcome.json IN
         IF _is_valid_3pe_metadata(info) # "True" THEN Return(JNull)
         ELSE LET instances == info.f["instances"].items IN
              \* instance.get on a non-mapping raises inside the try
              IF \E i \in DOMAIN instances : ~IsDict(instances[i])
              THEN Return(JNull)
              ELSE Return(JDict(
                     ("instances" :>
                        JList([i \in DOMAIN instances |->
                                 with_instance_id(service, instances[i])]))
                     @@ info.f))

\* Mutant: the protocol is left out of the key.
cache_key_service_only(service, protocol) == <<service.id, "irc">>

\* key = (service.id, protocol)
cache_key(service, protocol) == <<service.id, protocol>>

(***************************************************************************)
(* push_bulk and _serialize.                                               *)
(***************************************************************************)
\* service.is_interested_in_user: the user namespaces a service registered.
Namespaces == [id \in ServiceIds |-> IF id = "as1" THEN {"@bridged"} ELSE {}]
is_interested_in_user(service, user_id) == user_id \in Namespaces[service.id]

\* Mutant: a knock does not get the stripped state.
include_stripped_room_state_invite_only(service, e) ==
    /\ e.type = "m.room.member"
    /\ e.membership = "invite"
    /\ is_interested_in_user(service, e.state_key)

include_stripped_room_state(service, e) ==
    /\ e.type = "m.room.member"
    /\ (e.membership = "invite" \/ e.membership = "knock")
    /\ is_interested_in_user(service, e.state_key)

\* serialize_event(e, time_now, config): the client form of the event, its
\* age taken against time_now, with the stripped state when asked for.
serialize_event(e, time_now, stripped) ==
    [t |-> "event", event_id |-> e.event_id, type |-> e.type,
     time_now |-> time_now, stripped_state |-> stripped]

_serialize(service, events, time_now) ==
    [i \in DOMAIN events |->
       serialize_event(events[i], time_now,
                       include_stripped_room_state(service, events[i]))]

\* Truthiness of a dict argument, and of a DeviceListUpdates.
Truthy(d) == DOMAIN d.f # {}
DeviceListTruthy(s) == s.changed # {} \/ s.left # {}
\* list(a_set), for the sets of at most one member the model supplies.
ListOf(S) == IF S = {} THEN <<>> ELSE <<JStr(CHOOSE x \in S : TRUE)>>

\* Mutant: the capability flag is not consulted.
EphemeralFields_always(service, ephemeral, to_device_messages) ==
    [k \in {"de.sorunome.msc2409.ephemeral",
            "de.sorunome.msc2409.to_device"} |->
       IF k = "de.sorunome.msc2409.ephemeral" THEN JList(ephemeral)
       ELSE JList(to_device_messages)]

EphemeralFields(service, ephemeral, to_device_messages) ==
    IF service.supports_ephemeral
    THEN [k \in {"de.sorunome.msc2409.ephemeral",
                 "de.sorunome.msc2409.to_device"} |->
            IF k = "de.sorunome.msc2409.ephemeral" THEN JList(ephemeral)
            ELSE JList(to_device_messages)]
    ELSE EmptyMap

Msc3202Fields(service, one_time_keys_count, unused_fallback_keys, device_list_summary) ==
    IF service.msc3202_transaction_extensions
    THEN (IF Truthy(one_time_keys_count)
          THEN [k \in {"org.matrix.msc3202.device_one_time_key_counts",
                       "org.matrix.msc3202.device_one_time_keys_count"} |->
                  one_time_keys_count]
          ELSE EmptyMap)
         @@ (IF Truthy(unused_fallback_keys)
             THEN [k \in {"org.matrix.msc3202.device_unused_fallback_key_types"}
                     |-> unused_fallback_keys]
             ELSE EmptyMap)
         @@ (IF DeviceListTruthy(device_list_summary)
             THEN [k \in {"org.matrix.msc3202.device_lists"} |->
                     JDict([c \in {"changed", "left"} |->
                              IF c = "changed"
                              THEN JList(ListOf(device_list_summary.changed))
                              ELSE JList(ListOf(device_list_summary.left))])]
             ELSE EmptyMap)
    ELSE EmptyMap

\* The transaction the caller hands to push_bulk.
Txn(events, ephemeral, to_device_messages, one_time_keys_count, unused_fallback_keys, device_list_summary, txn_id) ==
    [events |-> events, ephemeral |-> ephemeral,
     to_device_messages |-> to_device_messages,
     one_time_keys_count |-> one_time_keys_count,
     unused_fallback_keys |-> unused_fallback_keys,
     device_list_summary |-> device_list_summary, txn_id |-> txn_id]

push_bulk_body(service, txn, time_now) ==
    JDict([k \in {"events"} |->
             JList(_serialize(service, txn.events, time_now))]
          @@ EphemeralFields(service, txn.ephemeral, txn.to_device_messages)
          @@ Msc3202Fields(service, txn.one_time_keys_count,
                           txn.unused_fallback_keys, txn.device_list_summary))

\* Mutant: the token is asserted before the url is looked at.
push_bulk_begin_asserts_first(service, txn, time_now) ==
    IF service.hs_token = NONE THEN Raise("AssertionError")
    ELSE IF service.url = NONE THEN Return(PyBool(TRUE))
    ELSE Request(HttpRequest("PUT",
                             Uri(service.url, <<"/transactions/">>,
                                 IF txn.txn_id = NONE THEN "0" ELSE txn.txn_id),
                             [access_token |-> service.hs_token],
                             Bearer(service),
                             push_bulk_body(service, txn, time_now)))

\* Transaction ids are modelled by str(txn_id); a missing one becomes 0.
push_bulk_begin(service, txn, time_now) ==
    IF service.url = NONE THEN Return(PyBool(TRUE))
    ELSE IF service.hs_token = NONE THEN Raise("AssertionError")
    ELSE Request(HttpRequest("PUT",
                             Uri(service.url, <<"/transactions/">>,
                                 IF txn.txn_id = NONE THEN "0" ELSE txn.txn_id),
                             [access_token |-> service.hs_token],
                             Bearer(service),
                             push_bulk_body(service, txn, time_now)))

push_bulk_end(outcome) ==
    IF outcome.k = "ok" THEN Return(PyBool(TRUE)) ELSE Return(PyBool(FALSE))

(***************************************************************************)
(* claim_client_keys                                                       *)
(***************************************************************************)
PyTuple(response, missing) ==
    [t |-> "tuple", response |-> response, missing |-> missing]

\* body.setdefault(user_id, {}).setdefault(device, []).append(algorithm)
claim_body(query) ==
    LET users == {q[1] : q \in Range(query)}
        devices(u) == {q[2] : q \in {x \in Range(query) : x[1] = u}}
        mine(u, d) == SelectSeq(query, LAMBDA q : q[1] = u /\ q[2] = d)
        algorithms(u, d) == [i \in DOMAIN mine(u, d) |-> JStr(mine(u, d)[i][3])]
    IN  JDict([u \in users |->
                 JDict([d \in devices(u) |-> JList(algorithms(u, d))])])

claim_client_keys_begin(service, query) ==
    IF service.url = NONE THEN Return(PyTuple(EmptyDict, query))
    ELSE IF service.hs_token = NONE THEN Raise("AssertionError")
    ELSE Request(HttpRequest("POST",
                             Uri(service.url,
                                 <<"/_matrix/app/unstable/org.matrix.msc3983/keys/claim">>,
                                 ""),
                             NoArgs, Bearer(service), claim_body(query)))

\* Mutant: a device that is present counts as fulfilled for every algorithm.
not_fulfilled_by_device(response, q) ==
    IF ~IsDict(response) THEN "AttributeError"
    ELSE LET by_user == IF HasKey(response, q[1]) THEN response.f[q[1]]
                        ELSE EmptyDict
         IN  IF ~IsDict(by_user) THEN "AttributeError"
             ELSE IF HasKey(by_user, q[2]) THEN "False" ELSE "True"

\* algorithm not in response.get(user_id, {}).get(device, []):
\* "True" (missing), "False" (fulfilled), or the exception the test throws.
not_fulfilled(response, q) ==
    IF ~IsDict(response) THEN "AttributeError"
    ELSE LET by_user == IF HasKey(response, q[1]) THEN response.f[q[1]]
                        ELSE EmptyDict
         IN  IF ~IsDict(by_user) THEN "AttributeError"
             ELSE LET by_device == IF HasKey(by_user, q[2]) THEN by_user.f[q[2]]
                                   ELSE JList(<<>>)
                  IN  CASE PyIn(q[3], by_device) = "raise" -> "TypeError"
                        [] PyIn(q[3], by_device) = "True" -> "False"
                        [] OTHER -> "True"

claim_missing(response, query) ==
    SelectSeq(query, LAMBDA q : not_fulfilled(response, q) = "True")

\* Mutant: an unsupported endpoint (404, 405) reports nothing as missing.
claim_client_keys_end_drops(query, outcome) ==
    IF outcome.k = "http" /\ outcome.code \in {404, 405}
    THEN Return(PyTuple(EmptyDict, <<>>))
    ELSE Return(PyTuple(EmptyDict, query))

claim_client_keys_end(query, outcome) ==
    IF outcome.k # "ok" THEN Return(PyTuple(EmptyDict, query))
    ELSE LET response == outcome.json
             thrown == {i \in DOMAIN query :
                          not_fulfilled(response, query[i])
                            \in {"AttributeError", "TypeError"}}
         IN  IF thrown # {}
             THEN Raise(not_fulfilled(response,
                          query[CHOOSE i \in thrown :
                                  \A j \in thrown : i <= j]))
             ELSE Return(PyTuple(response, claim_missing(response, query)))

(***************************************************************************)
(* State.                                                                  *)
(***************************************************************************)
VARIABLES
    pc,      \* per task: "idle", "await" (on HTTP), "cache_wait", "done"
    call,    \* per task: the operation called and its arguments
    req,     \* per task: the HTTP request the call issued, or NoReq
    resp,    \* per task: the transport outcome handed to the call, or NoResp
    ret,     \* per task: what the call returned or raised, or NoRet
    sent_transactions_counter,
    failed_transactions_counter,
    sent_events_counter,
    sent_ephemeral_counter,
    sent_todevice_counter,
    completed_pushes,     \* per service id: push_bulk calls that reached the
                          \* network and have completed (history)
    protocol_meta_cache,  \* ResponseCache keyed by (service id, protocol)
    now                   \* hs.get_clock().time_msec()

tasks == <<pc, call, req, resp, ret>>
counters == <<sent_transactions_counter, failed_transactions_counter,
              sent_events_counter, sent_ephemeral_counter,
              sent_todevice_counter, completed_pushes>>
vars == <<tasks, counters, protocol_meta_cache, now>>

NoCall == [op |-> "none"]
NoReq == [method |-> "none"]
NoResp == [k |-> "none"]
NoRet == [how |-> "none"]
NoEntry == [state |-> "none"]

Protocols == {"irc", "xmpp"}
Keys == ServiceIds \X Protocols
\* The clock moves in steps of half the cache's timeout.
ClockStep == HOUR_IN_MS \div 2

Init ==
    /\ pc = [t \in Tasks |-> "idle"]
    /\ call = [t \in Tasks |-> NoCall]
    /\ req = [t \in Tasks |-> NoReq]
    /\ resp = [t \in Tasks |-> NoResp]
    /\ ret = [t \in Tasks |-> NoRet]
    /\ sent_transactions_counter = [id \in ServiceIds |-> 0]
    /\ failed_transactions_counter = [id \in ServiceIds |-> 0]
    /\ sent_events_counter = [id \in ServiceIds |-> 0]
    /\ sent_ephemeral_counter = [id \in ServiceIds |-> 0]
    /\ sent_todevice_counter = [id \in ServiceIds |-> 0]
    /\ completed_pushes = [id \in ServiceIds |-> 0]
    /\ protocol_meta_cache = [key \in Keys |-> NoEntry]
    /\ now = 0

(***************************************************************************)
(* The two halves of a coroutine.  Start runs the code before the await:   *)
(* it either finishes the call at once or leaves it suspended on its       *)
(* request.  Finish runs the code after the await.                         *)
(***************************************************************************)
Start(t, c, begun) ==
    /\ pc[t] = "idle"
    /\ call' = [call EXCEPT ![t] = c]
    /\ pc' = [pc EXCEPT ![t] = IF begun.how = "request" THEN "await" ELSE "done"]
    /\ req' = [req EXCEPT ![t] = IF begun.how = "request" THEN begun.req ELSE NoReq]
    /\ ret' = [ret EXCEPT ![t] = IF begun.how = "request" THEN NoRet ELSE begun]
    /\ resp' = resp

Finish(t, outcome, ended) ==
    /\ pc' = [pc EXCEPT ![t] = "done"]
    /\ resp' = [resp EXCEPT ![t] = outcome]
    /\ ret' = [ret EXCEPT ![t] = ended]
    /\ UNCHANGED <<call, req>>

Awaiting(t, op) == pc[t] = "await" /\ call[t].op = op

\* The caller takes the result; the task is free for another call.
task_done(t) ==
    /\ pc[t] = "done"
    /\ pc' = [pc EXCEPT ![t] = "idle"]
    /\ call' = [call EXCEPT ![t] = NoCall]
    /\ req' = [req EXCEPT ![t] = NoReq]
    /\ resp' = [resp EXCEPT ![t] = NoResp]
    /\ ret' = [ret EXCEPT ![t] = NoRet]
    /\ UNCHANGED <<counters, protocol_meta_cache, now>>

\* Time passes.
tick ==
    /\ now < MaxTicks * ClockStep
    /\ now' = now + ClockStep
    /\ UNCHANGED <<tasks, counters, protocol_meta_cache>>

(***************************************************************************)
(* Operations without shared state: query_user, query_alias, query_3pe,    *)
(* ping, claim_client_keys.                                                *)
(***************************************************************************)
query_user(t, service, user_id) ==
    /\ Start(t, [op |-> "query_user", service |-> service, user_id |-> user_id],
             query_user_begin(service, user_id))
    /\ UNCHANGED <<counters, protocol_meta_cache, now>>

query_user_resume(t, outcome) ==
    /\ Awaiting(t, "query_user")
    /\ Finish(t, outcome, query_user_end(outcome))
    /\ UNCHANGED <<counters, protocol_meta_cache, now>>

query_alias(t, service, alias) ==
    /\ Start(t, [op |-> "query_alias", service |-> service, alias |-> alias],
             query_alias_begin(service, alias))
    /\ UNCHANGED <<counters, protocol_meta_cache, now>>

query_alias_resume(t, outcome) ==
    /\ Awaiting(t, "query_alias")
    /\ Finish(t, outcome, query_alias_end(outcome))
    /\ UNCHANGED <<counters, protocol_meta_cache, now>>

query_3pe(t, service, kind, protocol, fields) ==
    /\ Start(t, [op |-> "query_3pe", service |-> service, kind |-> kind,
                 protocol |-> protocol, fields |-> fields],
             query_3pe_begin(service, kind, protocol, fields))
    /\ UNCHANGED <<counters, protocol_meta_cache, now>>

query_3pe_resume(t, outcome) ==
    /\ Awaiting(t, "query_3pe")
    /\ Finish(t, outcome, query_3pe_end(call[t].kind, outcome))
    /\ UNCHANGED <<counters, protocol_meta_cache, now>>

ping(t, service, txn_id) ==
    /\ Start(t, [op |-> "ping", service |-> service, txn_id |-> txn_id],
             ping_begin(service, txn_id))
    /\ UNCHANGED <<counters, protocol_meta_cache, now>>

ping_resume(t, outcome) ==
    /\ Awaiting(t, "ping")
    /\ Finish(t, outcome, ping_end(outcome))
    /\ UNCHANGED <<counters, protocol_meta_cache, now>>

claim_client_keys(t, service, query) ==
    /\ Start(t, [op |-> "claim_client_keys", service |-> service,
                 query |-> query],
             claim_client_keys_begin(service, query))
    /\ UNCHANGED <<counters, protocol_meta_cache, now>>

claim_client_keys_resume(t, outcome) ==
    /\ Awaiting(t, "claim_client_keys")
    /\ Finish(t, outcome, claim_client_keys_end(call[t].query, outcome))
    /\ UNCHANGED <<counters, protocol_meta_cache, now>>

(***************************************************************************)
(* push_bulk: the counters move in the code after the await.               *)
(***************************************************************************)
InFlightPushes == {t \in Tasks : pc[t] = "await" /\ call[t].op = "push_bulk"}
PushesSoFar ==
    LET done[S \in SUBSET ServiceIds] ==
          IF S = {} THEN 0
          ELSE LET id == CHOOSE x \in S : TRUE
               IN  completed_pushes[id] + done[S \ {id}]
    IN  done[ServiceIds] + Cardinality(InFlightPushes)

\* Mutant: a failed transaction is counted as sent as well as failed.
push_bulk_counts_early(outcome, serialized_events, ephemeral, to_device_messages) ==
    IF outcome.k = "ok"
    THEN [sent_transactions |-> 1, failed_transactions |-> 0,
          sent_events |-> Len(serialized_events),
          sent_ephemeral |-> Len(ephemeral),
          sent_todevice |-> Len(to_device_messages)]
    ELSE [sent_transactions |-> 1, failed_transactions |-> 1,
          sent_events |-> 0, sent_ephemeral |-> 0, sent_todevice |-> 0]

\* What each counter is incremented by once put_json has answered.
push_bulk_counts(outcome, serialized_events, ephemeral, to_device_messages) ==
    IF outcome.k = "ok"
    THEN [sent_transactions |-> 1, failed_transactions |-> 0,
          sent_events |-> Len(serialized_events),
          sent_ephemeral |-> Len(ephemeral),
          sent_todevice |-> Len(to_device_messages)]
    ELSE [sent_transactions |-> 0, failed_transactions |-> 1,
          sent_events |-> 0, sent_ephemeral |-> 0, sent_todevice |-> 0]

inc(counter, id, n) == [counter EXCEPT ![id] = @ + n]

push_bulk(t, service, txn) ==
    /\ pc[t] = "idle"
    /\ push_bulk_begin(service, txn, now).how = "request" => PushesSoFar < MaxTxns
    /\ Start(t, [op |-> "push_bulk", service |-> service, txn |-> txn],
             push_bulk_begin(service, txn, now))
    /\ UNCHANGED <<counters, protocol_meta_cache, now>>

push_bulk_resume(t, outcome) ==
    /\ Awaiting(t, "push_bulk")
    /\ Finish(t, outcome, push_bulk_end(outcome))
    /\ LET id == call[t].service.id
           by == push_bulk_counts(outcome,
                                  req[t].body.f["events"].items,
                                  call[t].txn.ephemeral,
                                  call[t].txn.to_device_messages)
       IN  /\ sent_transactions_counter' =
                 inc(sent_transactions_counter, id, by.sent_transactions)
           /\ failed_transactions_counter' =
                 inc(failed_transactions_counter, id, by.failed_transactions)
           /\ sent_events_counter' = inc(sent_events_counter, id, by.sent_events)
           /\ sent_ephemeral_counter' =
                 inc(sent_ephemeral_counter, id, by.sent_ephemeral)
           /\ sent_todevice_counter' =
                 inc(sent_todevice_counter, id, by.sent_todevice)
           /\ completed_pushes' = inc(completed_pushes, id, 1)
    /\ UNCHANGED <<protocol_meta_cache, now>>

(***************************************************************************)
(* get_3pe_protocol, through protocol_meta_cache.wrap(key, _get).          *)
(*                                                                         *)
(* ResponseCache.wrap: a live entry for the key answers the call (at once  *)
(* when its result is in, else when the pending call completes); otherwise *)
(* the producer runs once and its result is kept for timeout_ms.           *)
(***************************************************************************)
Pending(leader) == [state |-> "pending", leader |-> leader]
Cached(result, expiry) == [state |-> "done", result |-> result, expiry |-> expiry]

\* What wrap finds under the key: "pending", "live", or "miss" (no entry,
\* or one past its expiry, which the lookup evicts).
cache_lookup(cache, key, time_now) ==
    CASE cache[key].state = "pending" -> "pending"
      [] cache[key].state = "done" /\ time_now < cache[key].expiry -> "live"
      [] OTHER -> "miss"

\* Mutant: results are kept for half an hour.
timeout_ms_half == HOUR_IN_MS \div 2

timeout_ms == HOUR_IN_MS

get_3pe_protocol(t, service, protocol) ==
    LET c == [op |-> "get_3pe_protocol", service |-> service,
              protocol |-> protocol]
        key == cache_key(service, protocol)
        found == cache_lookup(protocol_meta_cache, key, now)
    IN  /\ pc[t] = "idle"
        /\ CASE service.url = NONE ->
                  /\ Start(t, c, Return(EmptyDict))
                  /\ UNCHANGED <<counters, protocol_meta_cache, now>>
             [] service.url # NONE /\ found = "live" ->
                  /\ Start(t, c, Return(protocol_meta_cache[key].result))
                  /\ UNCHANGED <<counters, protocol_meta_cache, now>>
             [] service.url # NONE /\ found = "pending" ->
                  /\ pc' = [pc EXCEPT ![t] = "cache_wait"]
                  /\ call' = [call EXCEPT ![t] = c]
                  /\ UNCHANGED <<req, resp, ret, counters,
                                 protocol_meta_cache, now>>
             [] OTHER ->
                  /\ Start(t, c, _get_begin(service, protocol))
                  /\ protocol_meta_cache' =
                       [protocol_meta_cache EXCEPT
                          ![key] = IF _get_begin(service, protocol).how = "request"
                                   THEN Pending(t) ELSE NoEntry]
                  /\ UNCHANGED <<counters, now>>

Waiters(key) ==
    {w \in Tasks : /\ pc[w] = "cache_wait"
                   /\ cache_key(call[w].service, call[w].protocol) = key}

get_3pe_protocol_resume(t, outcome) ==
    /\ Awaiting(t, "get_3pe_protocol")
    /\ LET key == cache_key(call[t].service, call[t].protocol)
           ended == _get_end(call[t].service, outcome)
           woken == Waiters(key) \cup {t}
       IN  /\ pc' = [w \in Tasks |-> IF w \in woken THEN "done" ELSE pc[w]]
           /\ ret' = [w \in Tasks |-> IF w \in woken THEN ended ELSE ret[w]]
           /\ resp' = [resp EXCEPT ![t] = outcome]
           /\ protocol_meta_cache' =
                [protocol_meta_cache EXCEPT
                   ![key] = Cached(ended.value, now + timeout_ms)]
    /\ UNCHANGED <<call, req, counters, now>>

(***************************************************************************)
(* Inputs: the services, arguments and transport outcomes the calls are    *)
(* made with.                                                              *)
(***************************************************************************)
\* Services that differ in id, url and token only.
BasicServices ==
    {s \in Services : s.supports_ephemeral /\ s.msc3202_transaction_extensions}
\* One service id, with and without url and token.
CoreServices == {s \in BasicServices : s.id = "as1"}
\* The services of one id, with every flag.
OneIdServices == {s \in Services : s.id = "as1"}
\* Both ids with url and token, and one that lacks the token.
MetaServices ==
    {s \in BasicServices : s.url # NONE /\ (s.hs_token # NONE \/ s.id = "as1")}
\* Services whose calls reach the network.
NetServices == {s \in Services : s.url # NONE /\ s.hs_token # NONE}

UserIds == {"@alice:hs"}
Aliases == {"#room:hs"}
Kinds == {"user", "location", "room"}
FieldArgs == {NoArgs, [searchfield |-> "value"]}
PingTxnIds == {NONE, "ping1"}

\* JSON documents of every shape.
GenericJson == {JNull, JNum, JStr("text"), JList(<<>>), EmptyDict}
OkOf(docs) == {Ok(j) : j \in docs}
GenericOutcomes == OkOf(GenericJson) \cup Failures

\* Sequences over S of length 0..n.
SeqsUpTo(S, n) == UNION {[1..k -> S] : k \in 0..n}

\* Longest list in a response or an argument.
MaxLen == 2
\* Most persistent events in one transaction.
MaxEvents == 1

\* Third-party lookup results: well-formed for each kind, and malformed.
UserResult ==
    JDict([userid |-> JStr("@irc_u:hs"), protocol |-> JStr("irc"),
           fields |-> EmptyDict])
LocationResult ==
    JDict([alias |-> JStr("#irc_c:hs"), protocol |-> JStr("irc"),
           fields |-> EmptyDict])
NoFieldsResult == JDict([userid |-> JStr("@irc_u:hs"), protocol |-> JStr("irc")])
BadTypeResult ==
    JDict([userid |-> JNum, alias |-> JStr("#irc_c:hs"),
           protocol |-> JStr("irc"), fields |-> JList(<<>>)])
ThirdPartyResults ==
    {UserResult, LocationResult, NoFieldsResult, BadTypeResult, JStr("text")}
ThirdPartyOutcomes ==
    OkOf(GenericJson \cup {JList(l) : l \in SeqsUpTo(ThirdPartyResults, MaxLen)})
      \cup Failures

\* Protocol metadata: instances with and without a network_id, and documents
\* that are not metadata.
NetInstance == JDict([network_id |-> JStr("libera"), desc |-> JStr("Libera")])
NumInstance == JDict([network_id |-> JNum])
PlainInstance == JDict([desc |-> JStr("plain")])
NullInstance == JDict([network_id |-> JNull])
Instances == {NetInstance, NumInstance, PlainInstance, NullInstance, JNum}
Metadata(instances) ==
    JDict([instances |-> instances, user_fields |-> JList(<<>>)])
MetadataOutcomes ==
    OkOf(GenericJson
           \cup {Metadata(JList(l)) : l \in SeqsUpTo(Instances, MaxLen)}
           \cup {Metadata(JNum), JStr("instances"),
                 JList(<<JStr("instances")>>)})
      \cup Failures
\* A few of them.
CoreMetadataOutcomes ==
    OkOf({EmptyDict, Metadata(JList(<<NetInstance>>))})
      \cup {HttpError(404), ConnFail}

\* Transactions.
Message == [event_id |-> "$msg", type |-> "m.room.message",
            membership |-> NONE, state_key |-> NONE]
Invite(user) == [event_id |-> "$invite", type |-> "m.room.member",
                 membership |-> "invite", state_key |-> user]
Events == {Message, Invite("@bridged")}
Knock(user) == [event_id |-> "$knock", type |-> "m.room.member",
                membership |-> "knock", state_key |-> user]
Join(user) == [event_id |-> "$join", type |-> "m.room.member",
               membership |-> "join", state_key |-> user]
\* Events of every kind that _serialize tells apart.
MemberEvents ==
    {Message, Invite("@bridged"), Invite("@local"), Knock("@bridged"),
     Knock("@local"), Join("@bridged")}
\* Transactions of persistent events only.
EventTxns ==
    {Txn(ev, <<>>, <<>>, EmptyDict, EmptyDict, [changed |-> {}, left |-> {}], "7") :
       ev \in SeqsUpTo(MemberEvents, MaxLen)}
Typing == JDict([type |-> JStr("m.typing")])
ToDevice == JDict([type |-> JStr("m.room_key_request")])
KeyCounts == JDict([user |-> JDict([device |-> JNum])])
DeviceLists ==
    {[changed |-> {}, left |-> {}], [changed |-> {"@u1"}, left |-> {}],
     [changed |-> {}, left |-> {"@u2"}]}
TxnIds == {NONE, "7"}
Txns ==
    {Txn(ev, eph, td, otk, ufk, dls, id) :
       ev \in SeqsUpTo(Events, MaxEvents),
       eph \in {<<>>, <<Typing>>}, td \in {<<>>, <<ToDevice>>},
       otk \in {EmptyDict, KeyCounts}, ufk \in {EmptyDict, KeyCounts},
       dls \in DeviceLists, id \in TxnIds}
EmptyTxn == Txn(<<>>, <<>>, <<>>, EmptyDict, EmptyDict,
                [changed |-> {}, left |-> {}], NONE)
FullTxn == Txn(<<Message>>, <<Typing>>, <<ToDevice>>, KeyCounts, KeyCounts,
               [changed |-> {"@u1"}, left |-> {}], "7")
CoreTxns == {EmptyTxn, FullTxn}
PushOutcomes == OkOf({EmptyDict}) \cup {HttpError(500), ConnFail}

\* Key claims.
Triples == {"@u1", "@u2"} \X {"d1"} \X {"alg1", "alg2"}
Queries == SeqsUpTo(Triples, MaxLen)
KeyObject == JDict([key |-> JStr("base64")])
Maps(D, V) == UNION {[S -> V] : S \in SUBSET D}
DeviceKeys == {JDict(m) : m \in Maps({"alg1", "alg2"}, {KeyObject})}
UserKeys == {JDict(m) : m \in Maps({"d1"}, DeviceKeys)}
KeyResponses == {JDict(m) : m \in Maps({"@u1", "@u2"}, UserKeys)}
\* Responses that are not the nested mapping.
OddKeyResponses ==
    GenericJson \cup
    {JDict([u \in {"@u1"} |-> JNum]),
     JDict([u \in {"@u1"} |-> JDict([d \in {"d1"} |-> JNum])]),
     JDict([u \in {"@u1"} |-> JDict([d \in {"d1"} |-> JStr("alg1")])]),
     JDict([u \in {"@u1"} |-> JDict([d \in {"d1"} |-> JList(<<JStr("alg1")>>)])])}
KeyOutcomes == OkOf(KeyResponses \cup OddKeyResponses) \cup Failures
CoreQueries == {<<>>, <<<<"@u1", "d1", "alg1">>>>}
CoreKeyOutcomes ==
    OkOf({EmptyDict, JList(<<>>),
          JDict([u \in {"@u1"} |->
                   JDict([d \in {"d1"} |->
                            JDict([a \in {"alg1"} |-> KeyObject])])])})
      \cup Failures

(***************************************************************************)
(* Specifications.  Spec runs every operation from concurrent tasks on a   *)
(* small set of inputs; the others run one family of operations on the     *)
(* whole of its inputs.                                                    *)
(***************************************************************************)
Next ==
    \E t \in Tasks :
      \/ pc[t] = "idle" /\ \E s \in CoreServices, u \in UserIds : query_user(t, s, u)
      \/ \E o \in GenericOutcomes : query_user_resume(t, o)
      \/ pc[t] = "idle" /\ \E s \in CoreServices, a \in Aliases : query_alias(t, s, a)
      \/ \E o \in GenericOutcomes : query_alias_resume(t, o)
      \/ pc[t] = "idle" /\ \E s \in CoreServices, k \in Kinds : query_3pe(t, s, k, "irc", NoArgs)
      \/ \E o \in GenericOutcomes : query_3pe_resume(t, o)
      \/ pc[t] = "idle" /\ \E s \in CoreServices : get_3pe_protocol(t, s, "irc")
      \/ \E o \in CoreMetadataOutcomes : get_3pe_protocol_resume(t, o)
      \/ pc[t] = "idle" /\ \E s \in CoreServices, id \in PingTxnIds : ping(t, s, id)
      \/ \E o \in GenericOutcomes : ping_resume(t, o)
      \/ pc[t] = "idle" /\ \E s \in CoreServices, txn \in CoreTxns : push_bulk(t, s, txn)
      \/ \E o \in PushOutcomes : push_bulk_resume(t, o)
      \/ pc[t] = "idle" /\ \E s \in CoreServices, q \in CoreQueries : claim_client_keys(t, s, q)
      \/ \E o \in CoreKeyOutcomes : claim_client_keys_resume(t, o)
      \/ task_done(t)

Spec == Init /\ [][Next]_vars

\* Transactions pushed concurrently to services of both ids.
NextPush ==
    \E t \in Tasks :
      \/ pc[t] = "idle" /\ \E s \in BasicServices, txn \in CoreTxns : push_bulk(t, s, txn)
      \/ \E o \in PushOutcomes : push_bulk_resume(t, o)
      \/ task_done(t)

SpecPush == Init /\ [][NextPush]_vars

\* Every transaction to every service, one at a time.
NextBody ==
    \/ pc[1] = "idle" /\ \E s \in OneIdServices, txn \in Txns : push_bulk(1, s, txn)
    \/ \E o \in PushOutcomes : push_bulk_resume(1, o)
    \/ task_done(1)

SpecBody == Init /\ [][NextBody]_vars

\* Every key claim against every response, one at a time.
NextKeys ==
    \/ pc[1] = "idle" /\ \E s \in CoreServices, q \in Queries : claim_client_keys(1, s, q)
    \/ \E o \in KeyOutcomes : claim_client_keys_resume(1, o)
    \/ task_done(1)

SpecKeys == Init /\ [][NextKeys]_vars

\* Concurrent metadata lookups for every key, while time passes.
NextMeta ==
    \/ \E t \in Tasks :
         \/ pc[t] = "idle" /\ \E s \in MetaServices, p \in Protocols : get_3pe_protocol(t, s, p)
         \/ \E o \in CoreMetadataOutcomes : get_3pe_protocol_resume(t, o)
         \/ task_done(t)
    \/ tick

SpecMeta == Init /\ [][NextMeta]_vars

\* Every third-party lookup against every response, one at a time.
Next3pe ==
    \/ pc[1] = "idle" /\ \E s \in CoreServices, k \in Kinds, p \in Protocols, f \in FieldArgs : query_3pe(1, s, k, p, f)
    \/ \E o \in ThirdPartyOutcomes : query_3pe_resume(1, o)
    \/ task_done(1)

Spec3pe == Init /\ [][Next3pe]_vars

\* Metadata lookups against every response, one at a time.
NextInstances ==
    \/ pc[1] = "idle" /\ \E s \in MetaServices : get_3pe_protocol(1, s, "irc")
    \/ \E o \in MetadataOutcomes : get_3pe_protocol_resume(1, o)
    \/ task_done(1)

SpecInstances == Init /\ [][NextInstances]_vars

\* Event batches pushed to services of both ids, while time passes.
NextSerialize ==
    \/ pc[1] = "idle" /\ \E s \in BasicServices, txn \in EventTxns : push_bulk(1, s, txn)
    \/ \E o \in PushOutcomes : push_bulk_resume(1, o)
    \/ task_done(1)
    \/ tick

SpecSerialize == Init /\ [][NextSerialize]_vars

(***************************************************************************)
(* Properties.                                                             *)
(***************************************************************************)
Done(t, op) == pc[t] = "done" /\ call[t].op = op
Configured(service) == service.url # NONE /\ service.hs_token # NONE
QueryOps ==
    {"query_user", "query_alias", "query_3pe", "get_3pe_protocol",
     "push_bulk", "claim_client_keys"}
Failed(outcome) == outcome.k \in {"http", "exc"}

\* The value each operation documents for a call that made no request
\* because the service has no url.
NoUrlValue(c) ==
    CASE c.op \in {"query_user", "query_alias"} -> PyBool(FALSE)
      [] c.op = "query_3pe" -> JList(<<>>)
      [] c.op = "get_3pe_protocol" -> EmptyDict
      [] c.op = "push_bulk" -> PyBool(TRUE)
      [] c.op = "claim_client_keys" -> PyTuple(EmptyDict, c.query)

\* The value each operation documents for a failed request.
FailureValue(c) ==
    CASE c.op \in {"query_user", "query_alias", "push_bulk"} -> PyBool(FALSE)
      [] c.op = "query_3pe" -> JList(<<>>)
      [] c.op = "get_3pe_protocol" -> JNull
      [] c.op = "claim_client_keys" -> PyTuple(EmptyDict, c.query)

\* C1: every operation other than ping (query_3pe with kind user or
\* location), on a service with url and hs_token set, returns a value and
\* raises nothing, whatever the transport's outcome: a JSON body of any
\* shape, an HTTP error, a connection failure.
C1_NeverRaises ==
    \A t \in Tasks :
      (/\ pc[t] = "done"
       /\ call[t].op \in QueryOps
       /\ Configured(call[t].service)
       /\ (call[t].op = "query_3pe" => call[t].kind \in {"user", "location"}))
      => ret[t].how = "return"

\* C2, as stated: on a service with no url every operation other than ping
\* returns its no-op value for every input, having issued no request.
C2_NoUrlEveryInput ==
    \A t \in Tasks :
      (pc[t] = "done" /\ call[t].op \in QueryOps /\ call[t].service.url = NONE)
      => ret[t] = Return(NoUrlValue(call[t])) /\ req[t] = NoReq

\* C2, amended: on a service with no url, and for every input (for query_3pe:
\* every input whose kind is user or location), the operation returns its
\* no-op value; the step that makes the call issues no request and leaves
\* every counter and the protocol-metadata cache as they were.
NoUrlCall(t) ==
    /\ call[t].op \in QueryOps
    /\ call[t].service.url = NONE
    /\ (call[t].op = "query_3pe" => call[t].kind \in {"user", "location"})

C2_NoUrlNoOp ==
    /\ [](\A t \in Tasks :
            (pc[t] # "idle" /\ NoUrlCall(t))
            => /\ pc[t] = "done"
               /\ ret[t] = Return(NoUrlValue(call[t]))
               /\ req[t] = NoReq)
    /\ [][\A t \in Tasks :
            (pc[t] = "idle" /\ pc'[t] # "idle" /\ NoUrlCall(t)')
            => UNCHANGED <<counters, protocol_meta_cache>>]_vars

\* A metadata call on a service without url has returned {} although the
\* cache holds another result under the call's key.
C2_Witness ==
    \E t \in Tasks :
      /\ Done(t, "get_3pe_protocol")
      /\ call[t].service.url = NONE
      /\ ret[t] = Return(EmptyDict)
      /\ protocol_meta_cache[<<call[t].service.id, call[t].protocol>>].state = "done"
      /\ protocol_meta_cache[<<call[t].service.id, call[t].protocol>>].result
           # EmptyDict

\* C3: each push_bulk call that reached the network completes either
\* returning true with the service's transactions-sent counter up by one and
\* transactions-failed untouched, or returning false with transactions-failed
\* up by one and no sent counter touched; for every service id sent + failed
\* is the number of such completed calls, and no counter ever decreases.
SentCounters ==
    <<sent_transactions_counter, sent_events_counter, sent_ephemeral_counter,
      sent_todevice_counter>>
PushCompletes(t) == Awaiting(t, "push_bulk") /\ pc'[t] = "done"
NoDecrease(counter) == \A id \in ServiceIds : counter'[id] >= counter[id]

C3_PushCounters ==
    /\ [](\A id \in ServiceIds :
            sent_transactions_counter[id] + failed_transactions_counter[id]
              = completed_pushes[id])
    /\ [][\A t \in Tasks :
            PushCompletes(t) =>
              LET id == call[t].service.id IN
              \/ /\ ret'[t] = Return(PyBool(TRUE))
                 /\ sent_transactions_counter' =
                      [sent_transactions_counter EXCEPT ![id] = @ + 1]
                 /\ UNCHANGED failed_transactions_counter
              \/ /\ ret'[t] = Return(PyBool(FALSE))
                 /\ failed_transactions_counter' =
                      [failed_transactions_counter EXCEPT ![id] = @ + 1]
                 /\ UNCHANGED SentCounters]_vars
    /\ [][/\ NoDecrease(sent_transactions_counter)
          /\ NoDecrease(failed_transactions_counter)
          /\ NoDecrease(sent_events_counter)
          /\ NoDecrease(sent_ephemeral_counter)
          /\ NoDecrease(sent_todevice_counter)]_vars

\* A service has an accepted transaction and a failed one behind it.
C3_Witness ==
    /\ sent_transactions_counter["as1"] = 1
    /\ failed_transactions_counter["as1"] = 1
    /\ completed_pushes["as1"] = 2

\* C4: in every body push_bulk sends the events field is present; the
\* ephemeral and to-device fields are absent when the service does not
\* support ephemeral events, and the one-time-key-count, unused-fallback-key
\* and device-list fields are absent when it has no MSC3202 extensions,
\* whatever was supplied.
EphemeralKeys ==
    {"de.sorunome.msc2409.ephemeral", "de.sorunome.msc2409.to_device"}
Msc3202Keys ==
    {"org.matrix.msc3202.device_one_time_key_counts",
     "org.matrix.msc3202.device_one_time_keys_count",
     "org.matrix.msc3202.device_unused_fallback_key_types",
     "org.matrix.msc3202.device_lists"}
PushRequested(t) == call[t].op = "push_bulk" /\ req[t] # NoReq

C4_BodyFields ==
    \A t \in Tasks :
      PushRequested(t) =>
        LET sent == DOMAIN req[t].body.f IN
        /\ "events" \in sent
        /\ ~call[t].service.supports_ephemeral => sent \cap EphemeralKeys = {}
        /\ ~call[t].service.msc3202_transaction_extensions
             => sent \cap Msc3202Keys = {}

\* A transaction with every optional part non-empty has gone out to a
\* service with neither capability.
C4_Witness ==
    \E t \in Tasks :
      /\ PushRequested(t)
      /\ ~call[t].service.supports_ephemeral
      /\ ~call[t].service.msc3202_transaction_extensions
      /\ call[t].txn.ephemeral # <<>>
      /\ call[t].txn.to_device_messages # <<>>
      /\ Truthy(call[t].txn.one_time_keys_count)
      /\ Truthy(call[t].txn.unused_fallback_keys)
      /\ DeviceListTruthy(call[t].txn.device_list_summary)
      /\ DOMAIN req[t].body.f = {"events"}

\* C5: when the response is a nested mapping user -> device -> algorithm ->
\* key object, missing is the sub-list of the query (its order, its
\* duplicates) of the triples whose algorithm is no key of
\* response[user][device], an absent user or device counting as not
\* fulfilled, and the response is returned as received.
Fulfilled(response, q) ==
    /\ q[1] \in DOMAIN response.f
    /\ q[2] \in DOMAIN response.f[q[1]].f
    /\ q[3] \in DOMAIN response.f[q[1]].f[q[2]].f
Unfulfilled(response, query) ==
    SelectSeq(query, LAMBDA q : ~Fulfilled(response, q))

C5_MissingIsUnfulfilled ==
    \A t \in Tasks :
      (/\ Done(t, "claim_client_keys")
       /\ resp[t].k = "ok"
       /\ resp[t].json \in KeyResponses)
      => ret[t] = Return(PyTuple(resp[t].json,
                                 Unfulfilled(resp[t].json, call[t].query)))

\* A query of two triples of which the response fulfils the first only: the
\* second alone comes back in missing.
C5_Witness ==
    \E t \in Tasks :
      /\ Done(t, "claim_client_keys")
      /\ resp[t].k = "ok"
      /\ resp[t].json \in KeyResponses
      /\ Len(call[t].query) = 2
      /\ Len(ret[t].value.missing) = 1
      /\ ret[t].value.missing[1] = call[t].query[2]

\* C6: when the key-claim request fails (HTTP 404 or 405, any other HTTP
\* error, a connection failure) the call returns the empty map with the
\* whole query, element for element in its order, and the code after the
\* await leaves the caller's query list as it was.
C6_FailureReturnsQuery ==
    /\ [](\A t \in Tasks :
            (Done(t, "claim_client_keys") /\ Failed(resp[t]))
            => ret[t] = Return(PyTuple(EmptyDict, call[t].query)))
    /\ [][\A t \in Tasks :
            Awaiting(t, "claim_client_keys") => call'[t].query = call[t].query]_vars

\* A query of two different triples has come back whole after a 405.
C6_Witness ==
    \E t \in Tasks :
      /\ Done(t, "claim_client_keys")
      /\ resp[t] = HttpError(405)
      /\ Len(call[t].query) = 2
      /\ call[t].query[1] # call[t].query[2]
      /\ ret[t].value.missing = call[t].query

\* C7: while a get_3pe_protocol call for a key (service id, protocol) is in
\* flight, a further call with that key issues no request of its own and
\* completes, when the first does, with the first call's result; at most one
\* request per key is in flight; a call with another key is not held back by
\* it and issues its own request (unless the cache holds its result).
KeyOf(c) == <<c.service.id, c.protocol>>
Fetching(t) == Awaiting(t, "get_3pe_protocol") /\ req[t] # NoReq
Coalesced(t) == pc[t] = "cache_wait"
Calls(t) ==
    /\ pc[t] = "idle"
    /\ pc'[t] # "idle"
    /\ call'[t].op = "get_3pe_protocol"
    /\ Configured(call'[t].service)
HoldsLive(key) ==
    /\ protocol_meta_cache[key].state = "done"
    /\ now < protocol_meta_cache[key].expiry

C7_SingleFlight ==
    /\ [](\A t \in Tasks :
            Coalesced(t) =>
              /\ req[t] = NoReq
              /\ \E l \in Tasks : Fetching(l) /\ KeyOf(call[l]) = KeyOf(call[t]))
    /\ [](\A t, u \in Tasks :
            (t # u /\ Fetching(t) /\ Fetching(u))
            => KeyOf(call[t]) # KeyOf(call[u]))
    /\ [][\A l, w \in Tasks :
            (/\ Fetching(l) /\ Coalesced(w)
             /\ KeyOf(call[l]) = KeyOf(call[w])
             /\ pc'[l] = "done")
            => pc'[w] = "done" /\ ret'[w] = ret'[l]]_vars
    /\ [][\A t \in Tasks :
            Calls(t) =>
              IF \E l \in Tasks :
                   Fetching(l) /\ KeyOf(call[l]) = KeyOf(call'[t])
              THEN Coalesced(t)' /\ req'[t] = NoReq
              ELSE \/ Fetching(t)'
                   \/ HoldsLive(KeyOf(call'[t]))]_vars

\* Two calls with one key have completed with the same metadata, the second
\* without a request or a response of its own.
C7_Witness ==
    \E l, w \in Tasks :
      /\ Done(l, "get_3pe_protocol") /\ Done(w, "get_3pe_protocol")
      /\ KeyOf(call[l]) = KeyOf(call[w])
      /\ req[l] # NoReq /\ resp[l].k = "ok"
      /\ req[w] = NoReq /\ resp[w] = NoResp
      /\ ret[l].value # JNull
      /\ ret[w] = ret[l]

\* C8, as stated: on a service with a url, query_user and query_alias return
\* true exactly when the request got a successful response, whatever its
\* JSON body, and false on every failure.
C8_TrueIffSuccess ==
    \A t \in Tasks :
      ((Done(t, "query_user") \/ Done(t, "query_alias"))
       /\ Configured(call[t].service))
      => ret[t] = Return(PyBool(resp[t].k = "ok"))

\* C9: ping is the only operation that hands a transport failure on: a
\* failed request makes ping raise, ping returns only when its request
\* succeeded, and every other operation turns a failed request into its
\* failure value.
C9_OnlyPingPropagates ==
    \A t \in Tasks :
      /\ (Done(t, "ping") /\ Failed(resp[t])) => ret[t].how = "raise"
      /\ (Done(t, "ping") /\ ret[t].how = "return") => resp[t].k = "ok"
      /\ (pc[t] = "done" /\ call[t].op \in QueryOps /\ Failed(resp[t]))
           => ret[t] = Return(FailureValue(call[t]))

\* A ping has raised on a connection failure while another operation has
\* turned the same failure into its failure value.
C9_Witness ==
    \E t, u \in Tasks :
      /\ Done(t, "ping") /\ resp[t] = ConnFail /\ ret[t].how = "raise"
      /\ Done(u, "push_bulk") /\ resp[u] = ConnFail
      /\ ret[u] = Return(PyBool(FALSE))

\* C10: a call on a service with a url and no hs_token never issues a
\* request; it ends in an AssertionError, not in a soft failure value,
\* unless it would not have reached the network anyway: a query_3pe of an
\* unknown kind (a ValueError), or a get_3pe_protocol that the cache answers.
NoToken(t) ==
    /\ call[t] # NoCall
    /\ call[t].service.url # NONE
    /\ call[t].service.hs_token = NONE

AnsweredByCache(t) ==
    LET key == <<call[t].service.id, call[t].protocol>> IN
    /\ ret[t].how = "return"
    /\ protocol_meta_cache[key].state = "done"
    /\ protocol_meta_cache[key].result = ret[t].value

C10_NoTokenAborts ==
    \A t \in Tasks :
      NoToken(t) =>
        /\ req[t] = NoReq
        /\ pc[t] # "await"
        /\ pc[t] = "done" =>
             CASE call[t].op = "query_3pe" /\ call[t].kind \notin {"user", "location"}
                    -> ret[t] = Raise("ValueError")
               [] call[t].op = "get_3pe_protocol" /\ ret[t].how = "return"
                    -> AnsweredByCache(t)
               [] OTHER -> ret[t] = Raise("AssertionError")

\* A metadata lookup and a push have both aborted on the missing token.
C10_Witness ==
    \E t, u \in Tasks :
      /\ NoToken(t) /\ Done(t, "get_3pe_protocol")
      /\ ret[t] = Raise("AssertionError")
      /\ NoToken(u) /\ Done(u, "push_bulk")
      /\ ret[u] = Raise("AssertionError")

\* C11, as stated: every request that any of the seven operations issues
\* carries the Authorization header "Bearer <hs_token>" of the called
\* service and the access_token query parameter with the same token.
HasBearer(t) == req[t].headers = Bearer(call[t].service)
HasAccessToken(t) ==
    /\ "access_token" \in DOMAIN req[t].args
    /\ req[t].args["access_token"] = call[t].service.hs_token

C11_BothCredentials ==
    \A t \in Tasks : req[t] # NoReq => HasBearer(t) /\ HasAccessToken(t)

\* C12: a query_3pe of kind user (required field userid) or location
\* (required field alias) that got a response returns, when the response is
\* a list, the entries of the response, in its order, that are mappings with
\* the required field and "protocol" strings and "fields" a mapping; it
\* returns the empty list when the response is no list or the request failed.
WellFormed(r, kind) ==
    /\ r.t = "dict"
    /\ "protocol" \in DOMAIN r.f /\ r.f["protocol"].t = "string"
    /\ "fields" \in DOMAIN r.f /\ r.f["fields"].t = "dict"
    /\ kind = "user" => "userid" \in DOMAIN r.f /\ r.f["userid"].t = "string"
    /\ kind = "location" => "alias" \in DOMAIN r.f /\ r.f["alias"].t = "string"

RECURSIVE Kept(_, _)
Kept(items, kind) ==
    IF items = <<>> THEN <<>>
    ELSE IF WellFormed(Head(items), kind)
         THEN <<Head(items)>> \o Kept(Tail(items), kind)
         ELSE Kept(Tail(items), kind)

C12_ValidSublist ==
    \A t \in Tasks :
      (Done(t, "query_3pe") /\ resp[t] # NoResp) =>
        /\ call[t].kind \in {"user", "location"}
        /\ IF resp[t].k = "ok" /\ resp[t].json.t = "list"
           THEN ret[t] = Return(JList(Kept(resp[t].json.items, call[t].kind)))
           ELSE ret[t] = Return(JList(<<>>))

\* A user lookup has returned the one valid entry of a response that also
\* held an entry without "fields".
C12_Witness ==
    /\ Done(1, "query_3pe") /\ call[1].kind = "user"
    /\ resp[1] = Ok(JList(<<NoFieldsResult, UserResult>>))
    /\ ret[1] = Return(JList(<<UserResult>>))

\* C13.  A get_3pe_protocol call that made the request and got a response.
GotMetadata(t) ==
    /\ Done(t, "get_3pe_protocol") /\ req[t] # NoReq /\ resp[t].k = "ok"
HasInstanceList(j) ==
    /\ j.t = "dict"
    /\ "instances" \in DOMAIN j.f
    /\ j.f["instances"].t = "list"
NetworkId(instance) ==
    IF instance.t = "dict" /\ "network_id" \in DOMAIN instance.f
    THEN instance.f["network_id"] ELSE JNull
\* out is the response's metadata with nothing changed but the instance_id
\* of the instances that have a network_id.
SameButInstanceIds(t, out) ==
    LET info == resp[t].json
        sent == info.f["instances"].items
    IN  /\ out.t = "dict"
        /\ DOMAIN out.f = DOMAIN info.f
        /\ \A k \in DOMAIN info.f \ {"instances"} : out.f[k] = info.f[k]
        /\ out.f["instances"].t = "list"
        /\ Len(out.f["instances"].items) = Len(sent)
        /\ \A i \in DOMAIN sent :
             LET got == out.f["instances"].items[i] IN
             IF NetworkId(sent[i]) # JNull
             THEN /\ got.t = "dict"
                  /\ DOMAIN got.f = DOMAIN sent[i].f \cup {"instance_id"}
                  /\ got.f["instance_id"] =
                       ThirdPartyInstanceID_to_string(call[t].service.id,
                                                      NetworkId(sent[i]))
                  /\ \A k \in DOMAIN sent[i].f \ {"instance_id"} :
                       got.f[k] = sent[i].f[k]
             ELSE got = sent[i]

\* C13, as stated: whenever the response is an object whose instances field
\* is a list, the metadata is returned with the instance ids filled in and no
\* instance added, removed, reordered or otherwise changed; a response
\* without an instances list gives null.
C13_AnyInstanceList ==
    \A t \in Tasks :
      GotMetadata(t) =>
        IF HasInstanceList(resp[t].json)
        THEN ret[t].how = "return" /\ SameButInstanceIds(t, ret[t].value)
        ELSE ret[t] = Return(JNull)

\* C13, amended: the same when every instance of the list is a mapping; when
\* the response has no instances list, or an instance of the list is not a
\* mapping, the result is null.
AllMappings(j) ==
    \A i \in DOMAIN j.f["instances"].items : j.f["instances"].items[i].t = "dict"

C13_InstanceIds ==
    \A t \in Tasks :
      GotMetadata(t) =>
        IF HasInstanceList(resp[t].json) /\ AllMappings(resp[t].json)
        THEN ret[t].how = "return" /\ SameButInstanceIds(t, ret[t].value)
        ELSE ret[t] = Return(JNull)

\* The metadata came back with one instance given its instance_id and one,
\* which has no network_id, as it was sent.
C13_Witness ==
    /\ GotMetadata(1)
    /\ resp[1].json = Metadata(JList(<<NetInstance, PlainInstance>>))
    /\ ret[1].value.f["instances"].items[1].f["instance_id"] =
         ThirdPartyInstanceID_to_string(call[1].service.id, JStr("libera"))
    /\ ret[1].value.f["instances"].items[2] = PlainInstance

\* C14: in the body of every push_bulk request, the events field has one
\* entry per event passed in, in the order passed; an entry carries the
\* stripped room state exactly when its event is a membership event whose
\* membership is invite or knock and whose state key is a user the service
\* is interested in; and all entries of the push bear one timestamp.
WantsStrippedState(service, e) ==
    /\ e.type = "m.room.member"
    /\ e.membership \in {"invite", "knock"}
    /\ e.state_key \in Namespaces[service.id]

C14_StrippedState ==
    \A t \in Tasks :
      PushRequested(t) =>
        LET events == call[t].txn.events
            serialized_events == req[t].body.f["events"].items
        IN  /\ Len(serialized_events) = Len(events)
            /\ \A i \in DOMAIN events :
                 /\ serialized_events[i].event_id = events[i].event_id
                 /\ serialized_events[i].type = events[i].type
                 /\ serialized_events[i].stripped_state
                      = WantsStrippedState(call[t].service, events[i])
            /\ \A i, j \in DOMAIN serialized_events :
                 serialized_events[i].time_now = serialized_events[j].time_now

\* A push, made after the clock had moved, of a knock on a user the service
\* is interested in followed by an invite of a user it is not: the first
\* has the stripped state, the second has not.
C14_Witness ==
    /\ PushRequested(1)
    /\ call[1].service.id = "as1"
    /\ call[1].txn.events = <<Knock("@bridged"), Invite("@local")>>
    /\ req[1].body.f["events"].items[1].stripped_state
    /\ ~req[1].body.f["events"].items[2].stripped_state
    /\ req[1].body.f["events"].items[1].time_now > 0

\* C15: the result of a completed get_3pe_protocol request, null included,
\* is kept under its key (service id, protocol) until one hour after the
\* call completed.  Until then nothing replaces it, and every call with that
\* key returns it at once without a request; the entry goes only when a call
\* with that key finds it expired, and such a call, which issues one request
\* of its own (given the service has its token), returns nothing before its
\* own response is in.
CallsKey(t, key) ==
    /\ pc[t] = "idle"
    /\ pc'[t] # "idle"
    /\ call'[t].op = "get_3pe_protocol"
    /\ call'[t].service.url # NONE
    /\ KeyOf(call'[t]) = key
Stored(key) == protocol_meta_cache[key].state = "done"
Elapsed(key) == now >= protocol_meta_cache[key].expiry

C15_CachedForAnHour ==
    /\ [][\A l \in Tasks :
            (Fetching(l) /\ pc'[l] = "done") =>
              /\ ret'[l].how = "return"
              /\ protocol_meta_cache'[KeyOf(call[l])] =
                   [state |-> "done", result |-> ret'[l].value,
                    expiry |-> now + 3600000]]_vars
    /\ [][\A key \in Keys :
            (Stored(key) /\ protocol_meta_cache'[key] # protocol_meta_cache[key])
            => Elapsed(key) /\ \E t \in Tasks : CallsKey(t, key)]_vars
    /\ [][\A key \in Keys : \A t \in Tasks :
            (Stored(key) /\ CallsKey(t, key)) =>
              IF ~Elapsed(key)
              THEN /\ pc'[t] = "done"
                   /\ ret'[t] = Return(protocol_meta_cache[key].result)
                   /\ req'[t] = NoReq
              ELSE /\ ret'[t].how # "return"
                   /\ protocol_meta_cache'[key].state # "done"
                   /\ Configured(call'[t].service)
                        => /\ Fetching(t)'
                           /\ \A u \in Tasks \ {t} : req'[u] = req[u]]_vars

\* One call has completed with the null failure result and, the hour having
\* passed, a second call with the same key has a request of its own under way.
C15_Witness ==
    \E l, t \in Tasks :
      /\ Done(l, "get_3pe_protocol") /\ req[l] # NoReq
      /\ resp[l] \in Failures /\ ret[l] = Return(JNull)
      /\ Fetching(t) /\ KeyOf(call[t]) = KeyOf(call[l])
      /\ protocol_meta_cache[KeyOf(call[t])] = Pending(t)
      /\ now >= 3600000

\* C16, as stated: each accepted transaction adds to the service's
\* events-sent, ephemeral-events-sent and to-device-messages-sent counters
\* the number of persistent events, ephemeral events and to-device messages
\* in its request body, so that what was left out of the body for want of
\* the capability is not counted; a failed one adds nothing.
InBody(t, field) ==
    IF field \in DOMAIN req[t].body.f THEN Len(req[t].body.f[field].items) ELSE 0

C16_CountsWhatWasSent ==
    [][\A t \in Tasks :
         PushCompletes(t) =>
           LET id == call[t].service.id IN
           IF ret'[t] = Return(PyBool(TRUE))
           THEN /\ sent_events_counter'[id]
                     = sent_events_counter[id] + InBody(t, "events")
                /\ sent_ephemeral_counter'[id]
                     = sent_ephemeral_counter[id]
                         + InBody(t, "de.sorunome.msc2409.ephemeral")
                /\ sent_todevice_counter'[id]
                     = sent_todevice_counter[id]
                         + InBody(t, "de.sorunome.msc2409.to_device")
           ELSE UNCHANGED <<sent_events_counter, sent_ephemeral_counter,
                            sent_todevice_counter>>]_vars

====
